---------------------------- MODULE Spec2Model ----------------------------
(***************************************************************************)
(* A model of the faraway scoring engine and solo-play driver:             *)
(*   src/faraway/data_structures.py  the card records                      *)
(*   src/faraway/count_utils.py      sum_assets, validate_prerequisites,   *)
(*                                   compute_value                         *)
(*   src/faraway/player_field.py     PlayerField and its bookkeeping       *)
(*   src/faraway/final_count.py      the reverse-order field evaluator     *)
(*   src/faraway/solo_play.py        SoloPlay / RandomSoloPlay             *)
(***************************************************************************)
EXTENDS Integers, Sequences, FiniteSets, TLC

VARIABLES
    n_rounds,         \* SoloPlay.n_rounds
    use_bonus_cards,  \* SoloPlay.use_bonus_cards (also the argument of validate_final_field)
    verbose,          \* SoloPlay.verbose
    catalog,          \* what load_main_cards / load_bonus_cards read from data/*.json
    player_field,     \* SoloPlay.player_field (the field given to the evaluator)
    main_deck,        \* SoloPlay.main_deck
    bonus_deck,       \* SoloPlay.bonus_deck
    pc,               \* the position of the running call
    rounds_done,      \* play(): the iterations of "for _ in range(self.n_rounds)" done
    fc,               \* final_count(): its locals
    sim,              \* run_multiple_simulations(): its locals
    args,             \* the arguments of a call of a count_utils function
    ret,              \* the value the last call returned
    error             \* the exception that ended the running call, or NoError

vars == <<n_rounds, use_bonus_cards, verbose, catalog, player_field, main_deck,
          bonus_deck, pc, rounds_done, fc, sim, args, ret, error>>

-----------------------------------------------------------------------------
(* Bounds of the model *)

MaxCount == 2        \* largest count drawn for a prerequisite or a summed total
MaxCards == 2        \* longest card sequence given to sum_assets / compute_value
MaxMain == 3         \* longest main-card sequence of a field given to final_count
MaxBonus == 2        \* longest bonus-card sequence of a drawn field
MaxPlayed == 3       \* longest main-card sequence drawn for the bookkeeping methods
MaxRounds == 4       \* largest n_rounds of a driver
MaxSims == 2         \* largest n_simulations

-----------------------------------------------------------------------------
(* data_structures.py *)

PrerequisitesFields == <<"rock", "animal", "vegetal">>
AssetsFields == PrerequisitesFields \o <<"red", "green", "blue", "yellow", "night", "map">>
RewardsFields == AssetsFields \o <<"all_4_colors", "flat">>
SummedAssetsFields == AssetsFields \o <<"all_4_colors", "flat">>

Range(s) == {s[i] : i \in 1..Len(s)}

\* A pydantic model built from keyword arguments: fields not given take the
\* class default (0 everywhere, except SummedAssets.flat = 1).
Prerequisites(kw) ==
    [k \in Range(PrerequisitesFields) |-> IF k \in DOMAIN kw THEN kw[k] ELSE 0]
Assets(kw) ==
    [k \in Range(AssetsFields) |-> IF k \in DOMAIN kw THEN kw[k] ELSE 0]
Rewards(kw) ==
    [k \in Range(RewardsFields) |-> IF k \in DOMAIN kw THEN kw[k] ELSE 0]
SummedAssets(kw) ==
    [k \in Range(SummedAssetsFields) |->
        IF k \in DOMAIN kw THEN kw[k] ELSE IF k = "flat" THEN 1 ELSE 0]

NoFields == [k \in {} |-> 0]

MainCard(id, assets, rewards, prerequisites) ==
    [id |-> id, assets |-> Assets(assets), rewards |-> Rewards(rewards),
     prerequisites |-> Prerequisites(prerequisites)]
BonusCard(id, assets, rewards) ==
    [id |-> id, assets |-> Assets(assets), rewards |-> Rewards(rewards)]

PlayerField(main_cards, bonus_cards, rounds) ==
    [main_cards |-> main_cards, bonus_cards |-> bonus_cards, n_rounds |-> rounds]

DefaultRounds == 8

-----------------------------------------------------------------------------
(* count_utils.py *)

\* all(getattr(assets, key) >= value for key, value in prerequisites.model_dump().items())
RECURSIVE all_ge(_, _, _)
all_ge(keys, prerequisites, assets) ==
    IF keys = <<>> THEN TRUE
    ELSE IF assets[Head(keys)] >= prerequisites[Head(keys)]
         THEN all_ge(Tail(keys), prerequisites, assets)
         ELSE FALSE

\* the comparison made strict: a card needs more than it asks for
RECURSIVE all_gt(_, _, _)
all_gt(keys, prerequisites, assets) ==
    IF keys = <<>> THEN TRUE
    ELSE IF assets[Head(keys)] > prerequisites[Head(keys)]
         THEN all_gt(Tail(keys), prerequisites, assets)
         ELSE FALSE

validate_prerequisites_strict(prerequisites, assets) ==
    all_gt(PrerequisitesFields, prerequisites, assets)

validate_prerequisites(prerequisites, assets) ==
    all_ge(PrerequisitesFields, prerequisites, assets)

\* sum(getattr(card.assets, key) for card in cards)
RECURSIVE sum_key(_, _)
sum_key(cards, key) ==
    IF cards = <<>> THEN 0 ELSE Head(cards).assets[key] + sum_key(Tail(cards), key)

min2(a, b) == IF a <= b THEN a ELSE b
min4(a, b, c, d) == min2(min2(a, b), min2(c, d))

\* all_4_colors not passed on, so that it keeps its default
sum_assets_without_colors(cards) ==
    SummedAssets([key \in Range(AssetsFields) |-> sum_key(cards, key)])

sum_assets(cards) ==
    LET summed_assets == [key \in Range(AssetsFields) |-> sum_key(cards, key)]
        all_4_colors == min4(summed_assets["red"], summed_assets["green"],
                             summed_assets["blue"], summed_assets["yellow"])
    IN  SummedAssets(summed_assets @@ [all_4_colors |-> all_4_colors])

\* sum(getattr(assets, key) * reward for key, reward in rewards.model_dump().items())
RECURSIVE weighted_sum(_, _, _)
weighted_sum(keys, rewards, assets) ==
    IF keys = <<>> THEN 0
    ELSE assets[Head(keys)] * rewards[Head(keys)]
         + weighted_sum(Tail(keys), rewards, assets)

\* the weights of the resources only: all_4_colors and flat left out
compute_value_of_assets(rewards, assets) == weighted_sum(AssetsFields, rewards, assets)

compute_value(rewards, assets) == weighted_sum(RewardsFields, rewards, assets)

-----------------------------------------------------------------------------
(* player_field.py *)

get_summed_assets(field) == sum_assets(field.main_cards \o field.bonus_cards)

Last(s) == s[Len(s)]
Last2(s) == s[Len(s) - 1]

\* the map total itself, without the one card more
get_n_bonus_cards_to_draw_map_only(field) ==
    IF Len(field.main_cards) >= 2 /\ Last(field.main_cards).id > Last2(field.main_cards).id
    THEN get_summed_assets(field)["map"]
    ELSE 0

get_n_bonus_cards_to_draw(field) ==
    IF Len(field.main_cards) >= 2 /\ Last(field.main_cards).id > Last2(field.main_cards).id
    THEN get_summed_assets(field)["map"] + 1
    ELSE 0

\* equal ids counted as ascending
RECURSIVE gained_from_or_equal(_, _)
gained_from_or_equal(main_cards, i) ==
    IF i >= Len(main_cards) THEN 0
    ELSE (IF main_cards[i + 1].id >= main_cards[i].id THEN 1 ELSE 0)
         + gained_from_or_equal(main_cards, i + 1)

\* for i in range(len(self.main_cards) - 1): the count after the iterations i..end
RECURSIVE gained_from(_, _)
gained_from(main_cards, i) ==
    IF i >= Len(main_cards) THEN 0
    ELSE (IF main_cards[i + 1].id > main_cards[i].id THEN 1 ELSE 0)
         + gained_from(main_cards, i + 1)

get_n_bonus_cards_gained(field) == gained_from(field.main_cards, 1)

validate_n_final_bonus_cards(field) ==
    get_n_bonus_cards_gained(field) = Len(field.bonus_cards)

\* the number of main cards checked only when bonus cards are not in use
validate_final_field_either(field, use_bonus) ==
    IF use_bonus
    THEN validate_n_final_bonus_cards(field)
    ELSE Len(field.main_cards) = field.n_rounds

validate_final_field(field, use_bonus) ==
    IF use_bonus
    THEN Len(field.main_cards) = field.n_rounds /\ validate_n_final_bonus_cards(field)
    ELSE Len(field.main_cards) = field.n_rounds

-----------------------------------------------------------------------------
(* final_count.py *)

Unbound == [unbound |-> TRUE]     \* a local that no statement has assigned yet
NoLocals == [idle |-> TRUE]       \* the locals of a call that is not running
NoValue == <<>>                   \* nothing returned yet; a returned v is <<v>>
NoError == "none"

Reverse(s) == [i \in 1..Len(s) |-> s[Len(s) + 1 - i]]

\* lines 6-11: the locals before the first loop
\* the totals bound before the loops, to the totals of no card
fc_enter_with_totals(field) ==
    [total_reward |-> 0,
     active_field |-> PlayerField(<<>>, field.bonus_cards, DefaultRounds),
     summed_assets |-> sum_assets(<<>>),
     i |-> 0,
     j |-> 0]

fc_enter(field) ==
    [total_reward |-> 0,
     active_field |-> PlayerField(<<>>, field.bonus_cards, DefaultRounds),
     summed_assets |-> Unbound,
     i |-> 0,      \* cards of field.main_cards[::-1] already visited
     j |-> 0]      \* cards of field.bonus_cards already visited

\* the traversal in play order instead of the reverse
fc_main_step_forward(field, l) ==
    LET card == field.main_cards[l.i + 1]
        active_field == [l.active_field EXCEPT !.main_cards = Append(@, card)]
        summed_assets == get_summed_assets(active_field)
    IN  [l EXCEPT !.active_field = active_field,
                  !.summed_assets = summed_assets,
                  !.total_reward =
                      IF validate_prerequisites(card.prerequisites, summed_assets)
                      THEN @ + compute_value(card.rewards, summed_assets)
                      ELSE @,
                  !.i = @ + 1]

\* the totals of the whole field instead of those of the active field
fc_main_step_whole_field(field, l) ==
    LET card == Reverse(field.main_cards)[l.i + 1]
        active_field == [l.active_field EXCEPT !.main_cards = Append(@, card)]
        summed_assets == get_summed_assets(field)
    IN  [l EXCEPT !.active_field = active_field,
                  !.summed_assets = summed_assets,
                  !.total_reward =
                      IF validate_prerequisites(card.prerequisites, summed_assets)
                      THEN @ + compute_value(card.rewards, summed_assets)
                      ELSE @,
                  !.i = @ + 1]

\* lines 14-18: one iteration of "for card in field.main_cards[::-1]"
fc_main_step(field, l) ==
    LET card == Reverse(field.main_cards)[l.i + 1]
        active_field == [l.active_field EXCEPT !.main_cards = Append(@, card)]
        summed_assets == get_summed_assets(active_field)
    IN  [l EXCEPT !.active_field = active_field,
                  !.summed_assets = summed_assets,
                  !.total_reward =
                      IF validate_prerequisites(card.prerequisites, summed_assets)
                      THEN @ + compute_value(card.rewards, summed_assets)
                      ELSE @,
                  !.i = @ + 1]

\* a bonus card scored only when some main card scored before it
fc_bonus_step_gated(field, l) ==
    LET bonus_card == field.bonus_cards[l.j + 1]
    IN  [l EXCEPT !.total_reward =
                      IF @ > 0 THEN @ + compute_value(bonus_card.rewards, l.summed_assets)
                      ELSE @,
                  !.j = @ + 1]

\* a bonus card valued against the totals of the main cards and of the bonus
\* cards up to it
fc_bonus_step_so_far(field, l) ==
    LET bonus_card == field.bonus_cards[l.j + 1]
        so_far == sum_assets(field.main_cards \o SubSeq(field.bonus_cards, 1, l.j + 1))
    IN  [l EXCEPT !.total_reward = @ + compute_value(bonus_card.rewards, so_far),
                  !.j = @ + 1]

\* lines 21-22: one iteration of "for bonus_card in field.bonus_cards", which
\* reads the summed_assets the first loop left
fc_bonus_step(field, l) ==
    LET bonus_card == field.bonus_cards[l.j + 1]
    IN  [l EXCEPT !.total_reward = @ + compute_value(bonus_card.rewards, l.summed_assets),
                  !.j = @ + 1]

\* the locals after the first k iterations of the first loop
RECURSIVE fc_main_run(_, _)
fc_main_run(field, k) ==
    IF k = 0 THEN fc_enter(field) ELSE fc_main_step(field, fc_main_run(field, k - 1))

\* the locals after both loops, lines 14-22
RECURSIVE fc_bonus_run(_, _)
fc_bonus_run(field, k) ==
    IF k = 0
    THEN fc_main_run(field, Len(field.main_cards))
    ELSE fc_bonus_step(field, fc_bonus_run(field, k - 1))

\* the value of line 24, for a field the bonus loop can score
final_count(field) == fc_bonus_run(field, Len(field.bonus_cards)).total_reward

\* the field's own list reversed in place instead of the reversed copy of line 14
FinalCountEnterReversedInPlace ==
    /\ pc = "call_final_count"
    /\ player_field' = [player_field EXCEPT !.main_cards = Reverse(@)]
    /\ fc' = fc_enter(player_field)
    /\ pc' = "fc_main"
    /\ UNCHANGED <<n_rounds, use_bonus_cards, verbose, catalog, main_deck, bonus_deck,
                   rounds_done, sim, args, ret, error>>

FinalCountEnter ==
    /\ pc = "call_final_count"
    /\ fc' = fc_enter(player_field)
    /\ pc' = "fc_main"
    /\ UNCHANGED <<n_rounds, use_bonus_cards, verbose, catalog, player_field, main_deck,
                   bonus_deck, rounds_done, sim, args, ret, error>>

FinalCountMain ==
    /\ pc = "fc_main"
    /\ fc.i < Len(player_field.main_cards)
    /\ fc' = fc_main_step(player_field, fc)
    /\ UNCHANGED <<n_rounds, use_bonus_cards, verbose, catalog, player_field, main_deck,
                   bonus_deck, pc, rounds_done, sim, args, ret, error>>

FinalCountMainEnd ==
    /\ pc = "fc_main"
    /\ fc.i = Len(player_field.main_cards)
    /\ pc' = "fc_bonus"
    /\ UNCHANGED <<n_rounds, use_bonus_cards, verbose, catalog, player_field, main_deck,
                   bonus_deck, rounds_done, fc, sim, args, ret, error>>

FinalCountBonus ==
    /\ pc = "fc_bonus"
    /\ fc.j < Len(player_field.bonus_cards)
    /\ IF fc.summed_assets = Unbound
       THEN \* no main card: line 22 reads a name that was never assigned
            /\ error' = "UnboundLocalError"
            /\ pc' = "raised"
            /\ UNCHANGED fc
       ELSE /\ fc' = fc_bonus_step(player_field, fc)
            /\ UNCHANGED <<pc, error>>
    /\ UNCHANGED <<n_rounds, use_bonus_cards, verbose, catalog, player_field, main_deck,
                   bonus_deck, rounds_done, sim, args, ret>>

FinalCountReturn ==
    /\ pc = "fc_bonus"
    /\ fc.j = Len(player_field.bonus_cards)
    /\ ret' = <<fc.total_reward>>
    /\ pc' = "final_count_returned"
    /\ UNCHANGED <<n_rounds, use_bonus_cards, verbose, catalog, player_field, main_deck,
                   bonus_deck, rounds_done, fc, sim, args, error>>

-----------------------------------------------------------------------------
(* load_cards.py and solo_play.py *)

NoArgs == [none |-> TRUE]

load_main_cards == catalog.main_cards
load_bonus_cards == catalog.bonus_cards

\* a draw that reads the card and leaves it in the deck
PopNothing(deck, index) == deck

Pop(deck, index) == SubSeq(deck, 1, index - 1) \o SubSeq(deck, index + 1, Len(deck))

\* lines 71-75: whether the round draws a bonus card, the main card being played
\* the condition with ids that may be equal
draws_bonus_card_or_equal(field) ==
    /\ use_bonus_cards
    /\ Len(field.main_cards) >= 2
    /\ Last(field.main_cards).id >= Last2(field.main_cards).id

\* the test of lines 71-75 without use_bonus_cards
draws_bonus_card_ignoring_switch(field) ==
    /\ Len(field.main_cards) >= 2
    /\ Last(field.main_cards).id > Last2(field.main_cards).id

draws_bonus_card(field) ==
    /\ use_bonus_cards
    /\ Len(field.main_cards) >= 2
    /\ Last(field.main_cards).id > Last2(field.main_cards).id

\* SoloPlay.reset
\* a reset that builds the new field and keeps the decks of the game before
reset_field_only ==
    /\ player_field' = PlayerField(<<>>, <<>>, n_rounds)
    /\ UNCHANGED <<main_deck, bonus_deck>>

reset ==
    /\ player_field' = PlayerField(<<>>, <<>>, n_rounds)
    /\ main_deck' = load_main_cards
    /\ bonus_deck' = IF use_bonus_cards THEN load_bonus_cards ELSE <<>>

\* A local that holds a PlayerField holds a reference: to the object that
\* self.player_field refers to now, or to the object of an earlier trial, which
\* reset replaced by a new one (line 21) and nothing refers to but the local.
SelfPlayerField == [reference |-> "self.player_field"]
EarlierPlayerField(field) == [reference |-> "earlier", object |-> field]
Deref(reference) ==
    IF reference = SelfPlayerField THEN player_field ELSE reference.object

\* the locals of run_multiple_simulations after reset has replaced the object
\* of self.player_field
after_reset(locals) ==
    IF locals # NoLocals /\ locals.best_card_set = SelfPlayerField
    THEN [locals EXCEPT !.best_card_set = EarlierPlayerField(player_field)]
    ELSE locals

\* a reset that empties the lists of the object in place
PlayResetInPlace ==
    /\ pc = "call_play"
    /\ reset
    /\ rounds_done' = 0
    /\ fc' = NoLocals
    /\ pc' = "play_loop"
    /\ UNCHANGED <<n_rounds, use_bonus_cards, verbose, catalog, sim, args, ret, error>>

\* a caller calls play() on the driver
Play ==
    /\ pc = "idle"
    /\ pc' = "call_play"
    /\ ret' = NoValue
    /\ UNCHANGED <<n_rounds, use_bonus_cards, verbose, catalog, player_field, main_deck,
                   bonus_deck, rounds_done, fc, sim, args, error>>

\* play, line 29
PlayReset ==
    /\ pc = "call_play"
    /\ reset
    /\ rounds_done' = 0
    /\ fc' = NoLocals
    /\ sim' = after_reset(sim)
    /\ pc' = "play_loop"
    /\ UNCHANGED <<n_rounds, use_bonus_cards, verbose, catalog, args, ret, error>>

\* RandomSoloPlay._play_round, one of the n_rounds calls of play, lines 30-31.
\* np.random.randint(0, 0) raises ValueError: an empty deck ends the call, after
\* the main card was played when it is the bonus deck that is empty.
PlayRound ==
    /\ pc = "play_loop"
    /\ rounds_done < n_rounds
    /\ main_deck # <<>>
    /\ \E index \in 1..Len(main_deck) :
           LET main_card == main_deck[index]
               field == [player_field EXCEPT !.main_cards = Append(@, main_card)]
           IN  /\ main_deck' = Pop(main_deck, index)
               /\ IF draws_bonus_card(field)
                  THEN /\ bonus_deck # <<>>
                       /\ \E index2 \in 1..Len(bonus_deck) :
                              /\ bonus_deck' = Pop(bonus_deck, index2)
                              /\ player_field' =
                                     [field EXCEPT
                                         !.bonus_cards = Append(@, bonus_deck[index2])]
                  ELSE /\ player_field' = field
                       /\ UNCHANGED bonus_deck
    /\ rounds_done' = rounds_done + 1
    /\ UNCHANGED <<n_rounds, use_bonus_cards, verbose, catalog, pc, fc, sim, args, ret,
                   error>>

\* a round that plays no card when the main deck is empty, and returns
PlayRoundMainDeckEmptySkipped ==
    /\ pc = "play_loop"
    /\ rounds_done < n_rounds
    /\ main_deck = <<>>
    /\ rounds_done' = rounds_done + 1
    /\ UNCHANGED <<n_rounds, use_bonus_cards, verbose, catalog, player_field, main_deck,
                   bonus_deck, pc, fc, sim, args, ret, error>>

PlayRoundMainDeckEmpty ==
    /\ pc = "play_loop"
    /\ rounds_done < n_rounds
    /\ main_deck = <<>>
    /\ error' = "ValueError: low >= high"
    /\ pc' = "raised"
    /\ UNCHANGED <<n_rounds, use_bonus_cards, verbose, catalog, player_field, main_deck,
                   bonus_deck, rounds_done, fc, sim, args, ret>>

PlayRoundBonusDeckEmpty ==
    /\ pc = "play_loop"
    /\ rounds_done < n_rounds
    /\ main_deck # <<>>
    /\ \E index \in 1..Len(main_deck) :
           LET main_card == main_deck[index]
               field == [player_field EXCEPT !.main_cards = Append(@, main_card)]
           IN  /\ draws_bonus_card(field)
               /\ bonus_deck = <<>>
               /\ main_deck' = Pop(main_deck, index)
               /\ player_field' = field
    /\ error' = "ValueError: low >= high"
    /\ pc' = "raised"
    /\ UNCHANGED <<n_rounds, use_bonus_cards, verbose, catalog, bonus_deck, rounds_done,
                   fc, sim, args, ret>>

\* _play_round of any other subclass of SoloPlay (the method is abstract, lines
\* 36-39): a round that plays at most one main card and takes at most one bonus
\* card, whatever the ids
PlayRoundAbstract ==
    /\ pc = "play_loop"
    /\ rounds_done < n_rounds
    /\ \E index \in 0..Len(main_deck), index2 \in 0..Len(bonus_deck) :
           /\ main_deck' = IF index = 0 THEN main_deck ELSE Pop(main_deck, index)
           /\ bonus_deck' = IF index2 = 0 THEN bonus_deck ELSE Pop(bonus_deck, index2)
           /\ player_field' =
                  [player_field EXCEPT
                      !.main_cards =
                          IF index = 0 THEN @ ELSE Append(@, main_deck[index]),
                      !.bonus_cards =
                          IF index2 = 0 THEN @ ELSE Append(@, bonus_deck[index2])]
    /\ rounds_done' = rounds_done + 1
    /\ UNCHANGED <<n_rounds, use_bonus_cards, verbose, catalog, pc, fc, sim, args, ret,
                   error>>

\* play without the check of line 32
PlayValidateUnchecked ==
    /\ pc = "play_loop"
    /\ rounds_done = n_rounds
    /\ pc' = "call_final_count"
    /\ UNCHANGED <<n_rounds, use_bonus_cards, verbose, catalog, player_field, main_deck,
                   bonus_deck, rounds_done, fc, sim, args, ret, error>>

\* a batch that catches the error of a rejected field and goes on with one trial
\* less
PlayValidateCaught ==
    /\ pc = "play_loop"
    /\ rounds_done = n_rounds
    /\ IF ~validate_final_field(player_field, use_bonus_cards)
       THEN IF sim # NoLocals
            THEN /\ sim' = [sim EXCEPT !.n_simulations = @ - 1]
                 /\ pc' = "sim_loop"
                 /\ UNCHANGED error
            ELSE /\ error' = "ValueError: Final field is not valid"
                 /\ pc' = "raised"
                 /\ UNCHANGED sim
       ELSE /\ pc' = "call_final_count"
            /\ UNCHANGED <<error, sim>>
    /\ UNCHANGED <<n_rounds, use_bonus_cards, verbose, catalog, player_field, main_deck,
                   bonus_deck, rounds_done, fc, args, ret>>

\* the loop of play left one round early
PlayValidateEarly ==
    /\ pc = "play_loop"
    /\ rounds_done >= n_rounds - 1
    /\ IF ~validate_final_field(player_field, use_bonus_cards)
       THEN /\ error' = "ValueError: Final field is not valid"
            /\ pc' = "raised"
       ELSE /\ pc' = "call_final_count"
            /\ UNCHANGED error
    /\ UNCHANGED <<n_rounds, use_bonus_cards, verbose, catalog, player_field, main_deck,
                   bonus_deck, rounds_done, fc, sim, args, ret>>

\* play, lines 32-34: the final validation, then the call of final_count
PlayValidate ==
    /\ pc = "play_loop"
    /\ rounds_done = n_rounds
    /\ IF ~validate_final_field(player_field, use_bonus_cards)
       THEN /\ error' = "ValueError: Final field is not valid"
            /\ pc' = "raised"
       ELSE /\ pc' = "call_final_count"
            /\ UNCHANGED error
    /\ UNCHANGED <<n_rounds, use_bonus_cards, verbose, catalog, player_field, main_deck,
                   bonus_deck, rounds_done, fc, sim, args, ret>>

\* play, line 34: the score goes to the caller of play()
PlayReturn ==
    /\ pc = "final_count_returned"
    /\ sim = NoLocals
    /\ pc' = "idle"
    /\ UNCHANGED <<n_rounds, use_bonus_cards, verbose, catalog, player_field, main_deck,
                   bonus_deck, rounds_done, fc, sim, args, ret, error>>

\* run_multiple_simulations, lines 42-43
RunMultipleSimulations ==
    /\ pc = "idle"
    /\ \E n_simulations \in 0..MaxSims :
           sim' = [n_simulations |-> n_simulations,
                   results |-> <<>>,
                   best_score |-> 0,
                   best_card_set |-> Unbound]
    /\ ret' = NoValue
    /\ pc' = "sim_loop"
    /\ UNCHANGED <<n_rounds, use_bonus_cards, verbose, catalog, player_field, main_deck,
                   bonus_deck, rounds_done, fc, args, error>>

\* line 49-50: one more trial
SimPlay ==
    /\ pc = "sim_loop"
    /\ Len(sim.results) < sim.n_simulations
    /\ pc' = "call_play"
    /\ UNCHANGED <<n_rounds, use_bonus_cards, verbose, catalog, player_field, main_deck,
                   bonus_deck, rounds_done, fc, sim, args, ret, error>>

\* lines 50-55: play() returned a score
SimRecord ==
    /\ pc = "final_count_returned"
    /\ sim # NoLocals
    /\ LET results == Append(sim.results, ret[1])
       IN  sim' = IF Last(results) > sim.best_score
                  THEN [sim EXCEPT !.results = results,
                                   !.best_score = Last(results),
                                   !.best_card_set = SelfPlayerField]
                  ELSE [sim EXCEPT !.results = results]
    /\ pc' = "sim_loop"
    /\ UNCHANGED <<n_rounds, use_bonus_cards, verbose, catalog, player_field, main_deck,
                   bonus_deck, rounds_done, fc, args, ret, error>>

\* line 49: the loop ends
SimLoopEnd ==
    /\ pc = "sim_loop"
    /\ Len(sim.results) = sim.n_simulations
    /\ pc' = "sim_report"
    /\ UNCHANGED <<n_rounds, use_bonus_cards, verbose, catalog, player_field, main_deck,
                   bonus_deck, rounds_done, fc, sim, args, ret, error>>

\* lines 56-61: the statistics, which read np.min of the results (ValueError on
\* an empty list) and best_card_set (unassigned when no score exceeded 0), then
\* the return of the results
SimReport ==
    /\ pc = "sim_report"
    /\ IF verbose # 0 /\ sim.results = <<>>
       THEN /\ error' = "ValueError: zero-size array"
            /\ pc' = "raised"
            /\ UNCHANGED <<ret, sim>>
       ELSE IF verbose # 0 /\ sim.best_card_set = Unbound
       THEN /\ error' = "UnboundLocalError"
            /\ pc' = "raised"
            /\ UNCHANGED <<ret, sim>>
       ELSE /\ ret' = <<sim.results>>
            /\ sim' = NoLocals
            /\ pc' = "idle"
            /\ UNCHANGED error
    /\ UNCHANGED <<n_rounds, use_bonus_cards, verbose, catalog, player_field, main_deck,
                   bonus_deck, rounds_done, fc, args>>

-----------------------------------------------------------------------------
(* Calls of the pure functions: each returns its value in ret *)

Frame == <<n_rounds, use_bonus_cards, verbose, catalog, player_field, main_deck,
           bonus_deck, rounds_done, fc, sim, args, error>>

CallSumAssets ==
    /\ pc = "call_sum_assets"
    /\ ret' = <<sum_assets(args.cards)>>
    /\ pc' = "sum_assets_returned"
    /\ UNCHANGED Frame

CallValidatePrerequisites ==
    /\ pc = "call_validate_prerequisites"
    /\ ret' = <<validate_prerequisites(args.prerequisites, args.assets)>>
    /\ pc' = "validate_prerequisites_returned"
    /\ UNCHANGED Frame

CallComputeValue ==
    /\ pc = "call_compute_value"
    /\ ret' = <<compute_value(args.rewards, args.assets)>>
    /\ pc' = "compute_value_returned"
    /\ UNCHANGED Frame

CallBonusCardsToDraw ==
    /\ pc = "call_get_n_bonus_cards_to_draw"
    /\ ret' = <<get_n_bonus_cards_to_draw(player_field)>>
    /\ pc' = "get_n_bonus_cards_to_draw_returned"
    /\ UNCHANGED Frame

CallBonusCardsGained ==
    /\ pc = "call_get_n_bonus_cards_gained"
    /\ ret' = <<get_n_bonus_cards_gained(player_field)>>
    /\ pc' = "get_n_bonus_cards_gained_returned"
    /\ UNCHANGED Frame

CallValidateBonusCards ==
    /\ pc = "call_validate_n_final_bonus_cards"
    /\ ret' = <<validate_n_final_bonus_cards(player_field)>>
    /\ pc' = "validate_n_final_bonus_cards_returned"
    /\ UNCHANGED Frame

CallValidateFinalField ==
    /\ pc = "call_validate_final_field"
    /\ ret' = <<validate_final_field(player_field, use_bonus_cards)>>
    /\ pc' = "validate_final_field_returned"
    /\ UNCHANGED Frame

-----------------------------------------------------------------------------
(* The inputs the pure functions are applied to *)

BoundedSeq(S, n) == UNION {[1..m -> S] : m \in 0..n}

NoCatalog == [main_cards |-> <<>>, bonus_cards |-> <<>>]

\* Everything but pc, args, player_field and use_bonus_cards, for a call made
\* outside any game
NoGame ==
    /\ n_rounds = DefaultRounds
    /\ verbose = 1
    /\ catalog = NoCatalog
    /\ main_deck = <<>>
    /\ bonus_deck = <<>>
    /\ rounds_done = 0
    /\ fc = NoLocals
    /\ sim = NoLocals
    /\ ret = NoValue
    /\ error = NoError

\* count_utils: cards with one resource, no resource, or the four colours, and
\* rewards that differ from the assets
ColorFields == {"red", "green", "blue", "yellow"}
AllFields(fields, c) == [k \in fields |-> c]
UtilAssets ==
    {Assets(k :> c) : k \in Range(AssetsFields), c \in 1..MaxCount}
    \cup {Assets(NoFields), Assets(AllFields(ColorFields, 1)),
          Assets([red |-> 2, yellow |-> 2] @@ AllFields(ColorFields, 1))}
Card(assets, rewards) == [assets |-> assets, rewards |-> rewards]
UtilCards == {Card(a, Rewards(AllFields(Range(RewardsFields), 1))) : a \in UtilAssets}
UtilRewards ==
    {Rewards(k :> c) : k \in Range(RewardsFields), c \in 1..MaxCount}
    \cup {Rewards(NoFields), Rewards(AllFields(Range(RewardsFields), 1))}
UtilPrerequisites == [Range(PrerequisitesFields) -> 0..MaxCount]
\* totals: every combination of rock/animal/vegetal, the other fields all 0 or all high
UtilTotals ==
    {SummedAssets(h @@ AllFields(Range(AssetsFields) \cup {"all_4_colors"}, c)) :
        h \in UtilPrerequisites, c \in {0, MaxCount + 1}}

InitUtils ==
    /\ NoGame
    /\ use_bonus_cards = TRUE
    /\ player_field = PlayerField(<<>>, <<>>, DefaultRounds)
    /\ \/ /\ pc = "call_sum_assets"
          /\ args \in {[cards |-> cs] : cs \in BoundedSeq(UtilCards, MaxCards)}
       \/ /\ pc = "call_validate_prerequisites"
          /\ args \in {[prerequisites |-> p, assets |-> s] :
                          p \in UtilPrerequisites, s \in UtilTotals}
       \/ /\ pc = "call_compute_value"
          /\ args \in {[rewards |-> r, assets |-> sum_assets(cs)] :
                          r \in UtilRewards, cs \in BoundedSeq(UtilCards, MaxCards)}

NextUtils ==
    \/ CallSumAssets
    \/ CallValidatePrerequisites
    \/ CallComputeValue

SpecUtils == InitUtils /\ [][NextUtils]_vars

-----------------------------------------------------------------------------
(* Claims about count_utils.py, checked under SpecUtils *)

\* f[1] + ... + f[n]
RECURSIVE SumTo(_, _)
SumTo(f, n) == IF n = 0 THEN 0 ELSE SumTo(f, n - 1) + f[n]

Least(S) == CHOOSE m \in S : \A x \in S : m <= x

\* C4: for every sequence of cards, the empty one included, sum_assets returns
\* totals in which each resource is the sum of that resource over the cards'
\* assets (not their rewards), all_4_colors is the least of the four colour
\* totals and flat is 1; no card gives all zeros except flat = 1.
C4_SumAssets ==
    pc = "sum_assets_returned" =>
        LET cards == args.cards
            t == ret[1]
        IN  /\ DOMAIN t = Range(AssetsFields) \cup {"all_4_colors", "flat"}
            /\ \A k \in Range(AssetsFields) :
                   t[k] = SumTo([i \in 1..Len(cards) |-> cards[i].assets[k]], Len(cards))
            /\ t.all_4_colors = Least({t.red, t.green, t.blue, t.yellow})
            /\ t.flat = 1
            /\ cards = <<>> =>
                   t = [rock |-> 0, animal |-> 0, vegetal |-> 0, red |-> 0, green |-> 0,
                        blue |-> 0, yellow |-> 0, night |-> 0, map |-> 0,
                        all_4_colors |-> 0, flat |-> 1]

\* two cards with all four colours: red adds up to 3, the least colour to 2
C4_Witness ==
    /\ pc = "sum_assets_returned"
    /\ Len(args.cards) = 2
    /\ ret[1].red = 3
    /\ ret[1].all_4_colors = 2
    /\ ret[1].rock = 0

\* C5: validate_prerequisites(p, s) is true exactly when s has at least p's
\* rock, animal and vegetal; totals that agree on these three give the same
\* answer whatever their other fields; all-zero prerequisites always hold.
C5_ValidatePrerequisites ==
    pc = "validate_prerequisites_returned" =>
        LET p == args.prerequisites
            s == args.assets
        IN  /\ ret[1] = (s.rock >= p.rock /\ s.animal >= p.animal /\ s.vegetal >= p.vegetal)
            /\ \A s2 \in UtilTotals :
                   (s2.rock = s.rock /\ s2.animal = s.animal /\ s2.vegetal = s.vegetal)
                       => validate_prerequisites(p, s2) = ret[1]
            /\ (p.rock = 0 /\ p.animal = 0 /\ p.vegetal = 0) => ret[1]

\* met with nothing to spare on rock, while the other totals are high
C5_Witness ==
    /\ pc = "validate_prerequisites_returned"
    /\ ret[1]
    /\ args.prerequisites.rock = MaxCount
    /\ args.assets.rock = MaxCount
    /\ args.prerequisites.vegetal < args.assets.vegetal
    /\ args.assets.map > MaxCount

Scale(rewards, k) == [f \in DOMAIN rewards |-> k * rewards[f]]

\* C6: compute_value(r, t) is the sum of r[f] * t[f] over the nine resources,
\* all_4_colors and flat; the totals' flat being 1, r.flat counts once; scaling
\* every weight by k scales the value by k; all-zero rewards are worth 0.
C6_ComputeValue ==
    pc = "compute_value_returned" =>
        LET r == args.rewards
            t == args.assets
        IN  /\ ret[1] = r.rock * t.rock + r.animal * t.animal + r.vegetal * t.vegetal
                        + r.red * t.red + r.green * t.green + r.blue * t.blue
                        + r.yellow * t.yellow + r.night * t.night + r.map * t.map
                        + r.all_4_colors * t.all_4_colors + r.flat * t.flat
            /\ t.flat = 1
            /\ ret[1] = compute_value([r EXCEPT !.flat = 0], t) + r.flat
            /\ \A k \in 0..(MaxCount + 1) : compute_value(Scale(r, k), t) = k * ret[1]
            /\ (\A f \in DOMAIN r : r[f] = 0) => ret[1] = 0

\* every weight 1 on totals with all four colours: flat and all_4_colors count
C6_Witness ==
    /\ pc = "compute_value_returned"
    /\ \A f \in DOMAIN args.rewards : args.rewards[f] = 1
    /\ args.assets.all_4_colors = 2
    /\ args.assets.red = 3
    /\ ret[1] = 3 + 2 + 2 + 3 + 2 + 1

-----------------------------------------------------------------------------
(* Fields given to final_count and to the PlayerField methods *)

\* main cards whose prerequisites are met by themselves, by later cards, by
\* bonus cards, or not at all
FlatCard == MainCard(5, NoFields, [flat |-> 3], NoFields)
ScoreMain ==
    {FlatCard,
     MainCard(2, [rock |-> 1, red |-> 1, map |-> 1],
                 [red |-> 2, night |-> 1, vegetal |-> 2], [rock |-> 2]),
     MainCard(8, [animal |-> 1, green |-> 1, blue |-> 1, yellow |-> 1],
                 [all_4_colors |-> 4, rock |-> 1], [rock |-> 1]),
     MainCard(3, [vegetal |-> 1, night |-> 1, red |-> 1],
                 [map |-> 2, animal |-> 1, flat |-> 1], [animal |-> 1, vegetal |-> 2])}
MapBonus == BonusCard(2, [rock |-> 1, map |-> 1], [flat |-> 2, all_4_colors |-> 1])
PlainBonus == BonusCard(1, [green |-> 1, blue |-> 1, vegetal |-> 1], [yellow |-> 1])
ScoreBonus ==
    {PlainBonus, MapBonus,
     BonusCard(3, [animal |-> 1, yellow |-> 1, red |-> 1], [night |-> 2, rock |-> 1])}

\* main cards that differ in id and in map
PlayedMain ==
    {MainCard(2, NoFields, [flat |-> 1], NoFields),
     MainCard(3, [map |-> 1], [red |-> 1], NoFields),
     FlatCard,
     MainCard(8, [map |-> 1, rock |-> 1], [map |-> 1], [rock |-> 1])}
PlayedBonus == {PlainBonus, MapBonus}
Ids(cards) == [i \in 1..Len(cards) |-> cards[i].id]
\* the play orders up to MaxPlayed cards, and those with the ids 3, 5, 2, 8
PlayedSeqs ==
    BoundedSeq(PlayedMain, MaxPlayed)
    \cup {cs \in [1..4 -> PlayedMain] : Ids(cs) = <<3, 5, 2, 8>>}

\* the round counts around the number of cards played, and the default
RoundsNear(n) == {r \in {n - 1, n, n + 1} : r >= 0} \cup {DefaultRounds}

InitField ==
    /\ NoGame
    /\ args = NoArgs
    /\ \/ /\ pc = "call_final_count"
          /\ use_bonus_cards = TRUE
          /\ player_field \in
                 {PlayerField(m, b, DefaultRounds) :
                     m \in BoundedSeq(ScoreMain, MaxMain),
                     b \in BoundedSeq(ScoreBonus, MaxBonus)}
       \/ /\ pc \in {"call_get_n_bonus_cards_to_draw", "call_get_n_bonus_cards_gained",
                     "call_validate_n_final_bonus_cards"}
          /\ use_bonus_cards = TRUE
          /\ player_field \in
                 {PlayerField(m, b, DefaultRounds) :
                     m \in PlayedSeqs, b \in BoundedSeq(PlayedBonus, MaxBonus)}
       \/ /\ pc = "call_validate_final_field"
          /\ use_bonus_cards \in BOOLEAN
          /\ \/ \E m \in PlayedSeqs, b \in BoundedSeq(PlayedBonus, MaxBonus) :
                    \E r \in RoundsNear(Len(m)) : player_field = PlayerField(m, b, r)
             \/ \* 7 main cards for the default 8 rounds
                \E m \in [1..7 -> {c \in PlayedMain : c.id <= 3}],
                   b \in BoundedSeq(PlayedBonus, MaxBonus + 1) :
                    player_field = PlayerField(m, b, DefaultRounds)

NextField ==
    \/ FinalCountEnter
    \/ FinalCountMain
    \/ FinalCountMainEnd
    \/ FinalCountBonus
    \/ FinalCountReturn
    \/ CallBonusCardsToDraw
    \/ CallBonusCardsGained
    \/ CallValidateBonusCards
    \/ CallValidateFinalField

SpecField == InitField /\ [][NextField]_vars

-----------------------------------------------------------------------------
(* Claims about final_count.py, checked under SpecField *)

\* the totals a main card at play position i is scored against: the card, the
\* cards played after it, and every bonus card
TotalsFrom(field, i) ==
    sum_assets(SubSeq(field.main_cards, i, Len(field.main_cards)) \o field.bonus_cards)

MainAmount(field, i) ==
    LET card == field.main_cards[i]
    IN  IF validate_prerequisites(card.prerequisites, TotalsFrom(field, i))
        THEN compute_value(card.rewards, TotalsFrom(field, i))
        ELSE 0

BonusAmount(field, b) ==
    compute_value(field.bonus_cards[b].rewards, TotalsFrom(field, 1))

ExpectedScore(field) ==
    SumTo([i \in 1..Len(field.main_cards) |-> MainAmount(field, i)], Len(field.main_cards))
    + SumTo([b \in 1..Len(field.bonus_cards) |-> BonusAmount(field, b)],
            Len(field.bonus_cards))

PrerequisitesMet(field, i) ==
    validate_prerequisites(field.main_cards[i].prerequisites, TotalsFrom(field, i))

\* C1: for a field with at least one main card, final_count returns the sum over
\* the main cards of their reward value against the totals of the card, the
\* later cards and the bonus cards when those totals meet the card's
\* prerequisites (0 otherwise), plus each bonus card's reward value against the
\* totals of the whole field; one main card with flat = 3 and nothing else
\* scores 3.
C1_FinalCount ==
    (pc = "final_count_returned" /\ Len(player_field.main_cards) >= 1) =>
        /\ ret[1] = ExpectedScore(player_field)
        /\ (player_field.main_cards = <<FlatCard>> /\ player_field.bonus_cards = <<>>)
               => ret[1] = 3

\* three main cards of which the first played is not met and a later one with
\* prerequisites is, and a bonus card
C1_Witness ==
    /\ pc = "final_count_returned"
    /\ Len(player_field.main_cards) = 3
    /\ Len(player_field.bonus_cards) >= 1
    /\ ~PrerequisitesMet(player_field, 1)
    /\ \E i \in 2..3 :
           /\ PrerequisitesMet(player_field, i)
           /\ player_field.main_cards[i].prerequisites # Prerequisites(NoFields)
    /\ ret[1] > 0

\* the fields with the same bonus cards and the same last k main cards as field
SameSuffix(field, k) ==
    LET n == Len(field.main_cards)
    IN  {[field EXCEPT !.main_cards = before \o SubSeq(field.main_cards, n - k + 1, n)] :
            before \in BoundedSeq(ScoreMain, MaxMain - k)}

\* C2: the totals a main card is checked and scored against, and the amount
\* the first loop adds for it, depend only on that card, the main cards played
\* after it and the bonus cards: final_count computes the same totals and adds
\* the same amount for it on every field with these same cards, whatever the
\* main cards played before it.
C2_OnlyLaterCards ==
    [][(pc = "fc_main" /\ pc' = "fc_main" /\ fc'.i = fc.i + 1) =>
          \A other \in SameSuffix(player_field, fc'.i) :
              LET before == fc_main_run(other, fc.i)
                  after == fc_main_step(other, before)
              IN  /\ after.summed_assets = fc'.summed_assets
                  /\ after.total_reward - before.total_reward
                         = fc'.total_reward - fc.total_reward]_vars

\* the card played second has scored, and the card played first holds the rock
\* that card needed and did not get
C2_Witness ==
    /\ pc = "fc_main"
    /\ Len(player_field.main_cards) = 2
    /\ fc.i = 1
    /\ fc.total_reward = 0
    /\ player_field.main_cards[2].prerequisites.rock = 1
    /\ player_field.main_cards[1].assets.rock = 1
    /\ player_field.bonus_cards # <<>>

\* C3: on a field with at least one main card, when the first loop ends the
\* active field holds exactly the field's main cards and the totals are those
\* of all main and bonus cards; every bonus card then adds its reward value
\* against these totals, with no prerequisite check and whatever the main
\* cards scored.
C3_BonusCards ==
    [][/\ (pc' = "fc_bonus" /\ Len(player_field'.main_cards) >= 1) =>
              /\ fc'.active_field.main_cards = Reverse(player_field'.main_cards)
              /\ fc'.summed_assets =
                     sum_assets(player_field'.main_cards \o player_field'.bonus_cards)
       /\ (pc = "fc_bonus" /\ fc'.j = fc.j + 1 /\ Len(player_field.main_cards) >= 1) =>
              fc'.total_reward - fc.total_reward =
                  compute_value(player_field.bonus_cards[fc'.j].rewards,
                                sum_assets(player_field.main_cards
                                           \o player_field.bonus_cards))]_vars

\* no main card met its prerequisites, and a bonus card has scored
C3_Witness ==
    /\ pc = "fc_bonus"
    /\ Len(player_field.main_cards) >= 2
    /\ \A i \in 1..Len(player_field.main_cards) : ~PrerequisitesMet(player_field, i)
    /\ fc.j = 1
    /\ fc.total_reward > 0

-----------------------------------------------------------------------------
(* Claims about player_field.py, checked under SpecField *)

Ascents(main_cards) ==
    {i \in 1..(Len(main_cards) - 1) : main_cards[i + 1].id > main_cards[i].id}

MapTotal(cards) == SumTo([i \in 1..Len(cards) |-> cards[i].assets.map], Len(cards))

\* C8: get_n_bonus_cards_gained returns the number of adjacent pairs of main
\* cards whose later id is strictly greater; 0 with fewer than two main cards;
\* 2 for the ids 3, 5, 2, 8.
C8_BonusCardsGained ==
    pc = "get_n_bonus_cards_gained_returned" =>
        LET main_cards == player_field.main_cards
        IN  /\ ret[1] = Cardinality(Ascents(main_cards))
            /\ Len(main_cards) < 2 => ret[1] = 0
            /\ Ids(main_cards) = <<3, 5, 2, 8>> => ret[1] = 2

C8_Witness ==
    /\ pc = "get_n_bonus_cards_gained_returned"
    /\ Ids(player_field.main_cards) = <<3, 5, 2, 8>>
    /\ ret = <<2>>

\* C9: get_n_bonus_cards_to_draw returns the map total of all main and bonus
\* cards plus 1 when there are at least two main cards and the last id is
\* strictly greater than the one before, and 0 otherwise; ascending with a
\* map total of 2 gives 3.
C9_BonusCardsToDraw ==
    pc = "get_n_bonus_cards_to_draw_returned" =>
        LET main_cards == player_field.main_cards
            n == Len(main_cards)
            ascending == n >= 2 /\ main_cards[n].id > main_cards[n - 1].id
            map == MapTotal(main_cards) + MapTotal(player_field.bonus_cards)
        IN  /\ ret[1] = IF ascending THEN map + 1 ELSE 0
            /\ (ascending /\ map = 2) => ret[1] = 3

\* a map on a main card and one on a bonus card
C9_Witness ==
    /\ pc = "get_n_bonus_cards_to_draw_returned"
    /\ MapTotal(player_field.main_cards) = 1
    /\ MapTotal(player_field.bonus_cards) = 1
    /\ ret = <<3>>

\* C10: validate_final_field is true exactly when the number of main cards is
\* n_rounds and, with use_bonus_cards, the bonus cards gained are the bonus
\* cards held; without use_bonus_cards the bonus cards do not count; 7 main
\* cards with n_rounds = 8 are never valid.
C10_ValidateFinalField ==
    pc = "validate_final_field_returned" =>
        LET main_cards == player_field.main_cards
            bonus_cards == player_field.bonus_cards
        IN  /\ ret[1] = (/\ Len(main_cards) = player_field.n_rounds
                         /\ use_bonus_cards =>
                                Cardinality(Ascents(main_cards)) = Len(bonus_cards))
            /\ (Len(main_cards) = 7 /\ player_field.n_rounds = 8) => ~ret[1]

\* 7 main cards of 8, holding exactly the bonus cards they gained
C10_Witness ==
    /\ pc = "validate_final_field_returned"
    /\ use_bonus_cards
    /\ Len(player_field.main_cards) = 7
    /\ player_field.n_rounds = 8
    /\ Len(player_field.bonus_cards) = 3
    /\ Cardinality(Ascents(player_field.main_cards)) = 3
    /\ ret = <<FALSE>>

-----------------------------------------------------------------------------
(* The solo-play driver *)

\* the card files: one with distinct ids and a single bonus card, one with a
\* repeated id and two bonus cards
Catalogs ==
    {[main_cards |->
          <<MainCard(2, [rock |-> 1, map |-> 1], [red |-> 2, flat |-> 1], NoFields),
            MainCard(5, [red |-> 1, animal |-> 1], [rock |-> 2], [rock |-> 1]),
            MainCard(8, [vegetal |-> 1], [animal |-> 1, map |-> 1], [animal |-> 1])>>,
      bonus_cards |-> <<MapBonus>>],
     [main_cards |->
          <<MainCard(3, [rock |-> 1], NoFields, NoFields),
            MainCard(3, [green |-> 1, blue |-> 1], [vegetal |-> 1], [vegetal |-> 1]),
            MainCard(6, [red |-> 1, yellow |-> 1], [all_4_colors |-> 3], [rock |-> 1])>>,
      bonus_cards |-> <<PlainBonus, MapBonus>>]}

\* the state SoloPlay.__init__ leaves (lines 14-18)
Init ==
    /\ n_rounds \in 0..MaxRounds
    /\ use_bonus_cards \in BOOLEAN
    /\ verbose \in {0, 1}
    /\ catalog \in Catalogs
    /\ player_field = PlayerField(<<>>, <<>>, n_rounds)
    /\ main_deck = load_main_cards
    /\ bonus_deck = IF use_bonus_cards THEN load_bonus_cards ELSE <<>>
    /\ pc = "idle"
    /\ rounds_done = 0
    /\ fc = NoLocals
    /\ sim = NoLocals
    /\ args = NoArgs
    /\ ret = NoValue
    /\ error = NoError

Next ==
    \/ Play
    \/ PlayReset
    \/ PlayRound
    \/ PlayRoundMainDeckEmpty
    \/ PlayRoundBonusDeckEmpty
    \/ PlayValidate
    \/ FinalCountEnter
    \/ FinalCountMain
    \/ FinalCountMainEnd
    \/ FinalCountBonus
    \/ FinalCountReturn
    \/ PlayReturn
    \/ RunMultipleSimulations
    \/ SimPlay
    \/ SimRecord
    \/ SimLoopEnd
    \/ SimReport

Spec == Init /\ [][Next]_vars

-----------------------------------------------------------------------------
(* Claims about the driver, checked under Spec *)

\* C7: with use_bonus_cards, at every point of a game where no round is cut
\* short (the empty field, after every completed round, the final field and
\* its scoring) the field holds as many bonus cards as its main cards have
\* adjacent pairs with a strictly greater later id: validate_n_final_bonus_cards
\* holds.
C7_BonusCountInGame ==
    (use_bonus_cards /\ pc # "raised") =>
        /\ Len(player_field.bonus_cards) = Cardinality(Ascents(player_field.main_cards))
        /\ validate_n_final_bonus_cards(player_field)

\* three rounds played: the two cards with id 3 gave no bonus card, the 6 after
\* them gave one
C7_Witness ==
    /\ use_bonus_cards
    /\ pc = "play_loop"
    /\ rounds_done = 3
    /\ Ids(player_field.main_cards) = <<3, 3, 6>>
    /\ Len(player_field.bonus_cards) = 1
    /\ Len(bonus_deck) = 1


\* SoloPlay driven by any strategy
NextPlay ==
    \/ Play
    \/ PlayReset
    \/ PlayRoundAbstract
    \/ PlayValidate
    \/ FinalCountEnter
    \/ FinalCountMain
    \/ FinalCountMainEnd
    \/ FinalCountBonus
    \/ FinalCountReturn
    \/ PlayReturn
    \/ RunMultipleSimulations
    \/ SimPlay
    \/ SimRecord
    \/ SimLoopEnd
    \/ SimReport

SpecPlay == Init /\ [][NextPlay]_vars

InvalidField == "ValueError: Final field is not valid"
EmptyDeck == "ValueError: low >= high"
Scoring == {"call_final_count", "fc_main", "fc_bonus", "final_count_returned"}

\* C11: a play() resets first, then plays its rounds one by one up to n_rounds,
\* then validates, then scores: the validation and the scoring come only after
\* n_rounds rounds, on a field of exactly n_rounds main cards.
C11_PlayOrder ==
    [][/\ pc = "call_play" =>
              /\ pc' = "play_loop"
              /\ rounds_done' = 0
              /\ player_field' = PlayerField(<<>>, <<>>, n_rounds)
       /\ pc' = "play_loop" => pc \in {"call_play", "play_loop"}
       /\ (pc = "play_loop" /\ pc' = "play_loop") =>
              /\ rounds_done' = rounds_done + 1
              /\ rounds_done' <= n_rounds
              /\ Len(player_field'.main_cards) = rounds_done'
       /\ (pc = "play_loop" /\ (pc' = "call_final_count" \/ error' = InvalidField)) =>
              /\ rounds_done = n_rounds
              /\ Len(player_field.main_cards) = n_rounds
       /\ pc' = "call_final_count" => pc = "play_loop"
       /\ pc' \in Scoring =>
              /\ pc \in Scoring \cup {"play_loop"}
              /\ rounds_done' = n_rounds
              /\ Len(player_field'.main_cards) = n_rounds]_vars

\* three rounds played, the field validated and about to be scored
C11_Witness ==
    /\ pc = "call_final_count"
    /\ n_rounds = 3
    /\ rounds_done = 3
    /\ Len(player_field.main_cards) = 3
    /\ main_deck = <<>>

\* C12: play() scores only a field that validate_final_field accepts, and the
\* score is final_count of that field; on a field the validation rejects, play()
\* ends in the invalid-field ValueError and final_count is never entered.
C12_ScoreOnlyValidField ==
    [][/\ (pc = "play_loop" /\ rounds_done = n_rounds
              /\ ~validate_final_field(player_field, use_bonus_cards)) =>
              /\ pc' = "raised"
              /\ error' = InvalidField
              /\ fc' = NoLocals
              /\ player_field' = player_field
       /\ pc' \in Scoring => validate_final_field(player_field', use_bonus_cards)
       /\ pc' = "final_count_returned" => ret' = <<final_count(player_field')>>
       /\ (pc = "final_count_returned" /\ sim = NoLocals) =>
              /\ pc' = "idle"
              /\ ret' = ret
       /\ error' = InvalidField =>
              /\ pc' = "raised"
              /\ fc' = NoLocals
              /\ ~validate_final_field(player_field', use_bonus_cards)
       /\ pc # "raised"]_vars

\* a field of n_rounds main cards with a bonus card its ids did not earn: rejected
C12_Witness ==
    /\ pc = "raised"
    /\ error = InvalidField
    /\ n_rounds = 2
    /\ Len(player_field.main_cards) = 2
    /\ player_field.main_cards[1].id > player_field.main_cards[2].id
    /\ Len(player_field.bonus_cards) = 1
    /\ fc = NoLocals

Greatest(results) == CHOOSE x \in Range(results) : \A y \in Range(results) : y <= x

\* C13: once the n >= 1 trials of run_multiple_simulations are played (games of
\* at least one round), the n scores are collected, the batch does not end in
\* an error, and where the statistics are reported best_card_set is bound to the
\* field of a trial whose score is the greatest of the collected scores.
C13_BestCardSetDefined ==
    (sim # NoLocals /\ sim.n_simulations >= 1 /\ n_rounds >= 1
        /\ Len(sim.results) = sim.n_simulations) =>
        /\ pc # "raised"
        /\ (pc = "sim_report" /\ verbose # 0) =>
               /\ sim.best_card_set # Unbound
               /\ final_count(Deref(sim.best_card_set)) = Greatest(sim.results)

Without(deck, index) == SubSeq(deck, 1, index - 1) \o SubSeq(deck, index + 1, Len(deck))

\* C14: a _play_round that returns has moved exactly one card from the main deck
\* to the end of the field's main cards, the earlier main cards keeping their
\* places; it has moved exactly one card from the bonus deck to the end of the
\* field's bonus cards when use_bonus_cards is true and the ids of the two most
\* recent main cards are strictly ascending, and has left the bonus deck and
\* the bonus cards as they were otherwise.
C14_PlayRoundFrame ==
    [][(pc = "play_loop" /\ pc' = "play_loop") =>
          LET main == player_field.main_cards
              main2 == player_field'.main_cards
              bonus == player_field.bonus_cards
              bonus2 == player_field'.bonus_cards
          IN  /\ Len(main_deck') = Len(main_deck) - 1
              /\ Len(main2) = Len(main) + 1
              /\ SubSeq(main2, 1, Len(main)) = main
              /\ \E index \in 1..Len(main_deck) :
                     /\ main_deck' = Without(main_deck, index)
                     /\ Last(main2) = main_deck[index]
              /\ player_field'.n_rounds = player_field.n_rounds
              /\ IF /\ use_bonus_cards
                    /\ Len(main2) >= 2
                    /\ main2[Len(main2)].id > main2[Len(main2) - 1].id
                 THEN /\ Len(bonus_deck') = Len(bonus_deck) - 1
                      /\ SubSeq(bonus2, 1, Len(bonus)) = bonus
                      /\ \E index2 \in 1..Len(bonus_deck) :
                             /\ bonus_deck' = Without(bonus_deck, index2)
                             /\ bonus2 = Append(bonus, bonus_deck[index2])
                 ELSE /\ bonus_deck' = bonus_deck
                      /\ bonus2 = bonus]_vars

\* after the second round: two main cards of ascending ids and the bonus card
\* the second round took from a deck of two
C14_Witness ==
    /\ pc = "play_loop"
    /\ rounds_done = 2
    /\ Len(player_field.main_cards) = 2
    /\ player_field.main_cards[1].id < player_field.main_cards[2].id
    /\ Len(main_deck) = 1
    /\ Len(player_field.bonus_cards) = 1
    /\ Len(bonus_deck) = 1

\* C15 as stated: final_count never returns a score for a field without main
\* cards, whatever its bonus cards.
C15_EmptyMainNeverReturns ==
    player_field.main_cards = <<>> => pc # "final_count_returned"

\* C15: for a field without main cards and with at least one bonus card the
\* bonus loop finds no totals and final_count ends in UnboundLocalError without
\* returning a score; for a field with no card at all it returns 0.
C15_EmptyMain ==
    [][player_field.main_cards = <<>> =>
          /\ (pc = "fc_bonus" /\ player_field.bonus_cards # <<>>) =>
                 /\ fc.summed_assets = Unbound
                 /\ pc' = "raised"
                 /\ error' = "UnboundLocalError"
                 /\ ret' = NoValue
          /\ pc' = "final_count_returned" =>
                 /\ player_field.bonus_cards = <<>>
                 /\ ret' = <<0>>]_vars

\* the evaluation of two bonus cards without a main card has ended in the error
C15_Witness ==
    /\ pc = "raised"
    /\ error = "UnboundLocalError"
    /\ player_field.main_cards = <<>>
    /\ Len(player_field.bonus_cards) = 2
    /\ ret = NoValue

\* C16: a draw from an empty deck is fatal for the trial. A round called with
\* the main deck empty, and a round that has to draw a bonus card with the bonus
\* deck empty, end in an error; after the error no step is taken (no further
\* round, no validation, no scoring) and play() has returned no score.
C16_EmptyDeckFatal ==
    [][/\ (pc = "play_loop" /\ rounds_done < n_rounds /\ main_deck = <<>>) =>
              /\ pc' = "raised"
              /\ error' = EmptyDeck
              /\ player_field' = player_field
       /\ (/\ pc = "play_loop"
           /\ bonus_deck = <<>>
           /\ use_bonus_cards
           /\ Len(player_field'.main_cards) = Len(player_field.main_cards) + 1
           /\ Len(player_field'.main_cards) >= 2
           /\ Last(player_field'.main_cards).id >
                  player_field'.main_cards[Len(player_field.main_cards)].id) =>
              /\ pc' = "raised"
              /\ error' = EmptyDeck
       /\ error' = EmptyDeck =>
              /\ pc' = "raised"
              /\ fc' = NoLocals
              /\ rounds_done' = rounds_done
              /\ rounds_done < n_rounds
              /\ sim = NoLocals => ret' = NoValue
              /\ sim # NoLocals => sim'.results = sim.results
       /\ pc # "raised"]_vars

\* a game of four rounds on a catalog of three main cards: the fourth round
\* found the deck empty
C16_Witness ==
    /\ pc = "raised"
    /\ error = EmptyDeck
    /\ main_deck = <<>>
    /\ n_rounds = 4
    /\ rounds_done = 3
    /\ Len(player_field.main_cards) = 3
    /\ fc = NoLocals

\* C17 as stated: when the validation of a trial of a batch fails with trials
\* left to play, the batch has not ended: the later trials are still played.
C17_LaterTrialsPlayed ==
    (sim # NoLocals /\ error = InvalidField
        /\ Len(sim.results) + 1 < sim.n_simulations) => pc # "raised"

\* C17: in run_multiple_simulations the ValueError of a trial whose validation
\* fails is not caught: it ends the batch with the scores collected so far
\* unreturned, and no later trial is played.
C17_FailedTrialEndsBatch ==
    [][/\ (sim # NoLocals /\ pc = "play_loop" /\ rounds_done = n_rounds
              /\ ~validate_final_field(player_field, use_bonus_cards)) =>
              /\ pc' = "raised"
              /\ error' = InvalidField
              /\ sim' = sim
              /\ ret' = ret
       /\ (sim # NoLocals /\ pc = "raised") => FALSE]_vars

\* the first trial of a batch of two was rejected: the second is never played
C17_Witness ==
    /\ pc = "raised"
    /\ error = InvalidField
    /\ sim # NoLocals
    /\ sim.n_simulations = 2
    /\ sim.results = <<>>
    /\ n_rounds = 1

\* C18: trials share no mutable state. The first step of every play() leaves a
\* field without main or bonus cards, the main deck equal to the main catalog
\* and the bonus deck equal to the bonus catalog (empty when use_bonus_cards is
\* false), whatever the decks and the field were; and the field that
\* best_card_set refers to changes only when a better trial is recorded: no
\* reset and no round of a later trial changes it.
C18_TrialsShareNothing ==
    [][/\ pc = "call_play" =>
              /\ player_field'.main_cards = <<>>
              /\ player_field'.bonus_cards = <<>>
              /\ main_deck' = catalog.main_cards
              /\ bonus_deck' = IF use_bonus_cards THEN catalog.bonus_cards ELSE <<>>
       /\ (/\ sim # NoLocals
           /\ sim' # NoLocals
           /\ sim.best_card_set # Unbound
           /\ sim'.results = sim.results) =>
              /\ sim'.best_card_set # Unbound
              /\ Deref(sim.best_card_set)' = Deref(sim.best_card_set)]_vars

\* the second trial of a batch has played a round on its own field and decks,
\* while best_card_set still holds the two cards of the first trial
C18_Witness ==
    /\ sim # NoLocals
    /\ Len(sim.results) = 1
    /\ sim.best_card_set # Unbound
    /\ sim.best_card_set # SelfPlayerField
    /\ Len(Deref(sim.best_card_set).main_cards) = 2
    /\ pc = "play_loop"
    /\ rounds_done = 1
    /\ Len(player_field.main_cards) = 1
    /\ Len(main_deck) = 2

Evaluating == {"call_final_count", "fc_main", "fc_bonus"}

\* C19: final_count does not modify the field it is given. No step of the
\* evaluation, up to and including the return, changes the field's main_cards,
\* bonus_cards or n_rounds, while the evaluator's own working field receives the
\* main cards it has visited, last played first.
C19_FieldUnchanged ==
    [][(pc \in Evaluating) =>
          /\ player_field'.main_cards = player_field.main_cards
          /\ player_field'.bonus_cards = player_field.bonus_cards
          /\ player_field'.n_rounds = player_field.n_rounds
          /\ pc' \in Evaluating \cup {"final_count_returned"} =>
                 /\ fc' # NoLocals
                 /\ fc'.active_field.main_cards =
                        SubSeq(Reverse(player_field.main_cards), 1, fc'.i)]_vars

\* final_count has returned: its working field holds the three main cards in
\* the reverse of the order the field still has
C19_Witness ==
    /\ pc = "final_count_returned"
    /\ Len(player_field.main_cards) = 3
    /\ Len(player_field.bonus_cards) = 2
    /\ fc.active_field.main_cards = Reverse(player_field.main_cards)
    /\ fc.active_field.main_cards # player_field.main_cards

Reordered(cards) ==
    {[i \in 1..Len(cards) |-> cards[p[i]]] : p \in Permutations(1..Len(cards))}

\* C20: the order of the bonus cards does not affect the score. For every field
\* with at least one main card, final_count of the field with its bonus cards
\* in any other order is the score final_count returned.
C20_BonusOrder ==
    (pc = "final_count_returned" /\ Len(player_field.main_cards) >= 1) =>
        \A bonus_cards \in Reordered(player_field.bonus_cards) :
            final_count([player_field EXCEPT !.bonus_cards = bonus_cards]) = ret[1]

\* a scored field with two different bonus cards, each of which adds to the score
C20_Witness ==
    /\ pc = "final_count_returned"
    /\ Len(player_field.main_cards) = 2
    /\ Len(player_field.bonus_cards) = 2
    /\ player_field.bonus_cards[1] # player_field.bonus_cards[2]
    /\ Cardinality(Reordered(player_field.bonus_cards)) = 2
    /\ \A i \in 1..2 :
           compute_value(player_field.bonus_cards[i].rewards, fc.summed_assets) > 0
    /\ ret[1] > compute_value(player_field.bonus_cards[1].rewards, fc.summed_assets)
                   + compute_value(player_field.bonus_cards[2].rewards, fc.summed_assets)

\* how many times each card occurs in a list
Copies(cards) ==
    [card \in Range(cards) |-> Cardinality({i \in 1..Len(cards) : cards[i] = card})]

\* C21: cards are conserved during a game of the baseline strategy. In every
\* state the field's main cards together with the main deck hold each card as
\* many times as the main catalog does, and the field's bonus cards together
\* with the bonus deck as the bonus catalog does (no bonus card at all when
\* use_bonus_cards is false); hence no card is on the field twice.
C21_CardsConserved ==
    /\ Copies(player_field.main_cards \o main_deck) = Copies(catalog.main_cards)
    /\ Copies(player_field.bonus_cards \o bonus_deck) =
           Copies(IF use_bonus_cards THEN catalog.bonus_cards ELSE <<>>)
    /\ \A i, j \in 1..Len(player_field.main_cards) :
           player_field.main_cards[i] = player_field.main_cards[j] => i = j
    /\ \A i, j \in 1..Len(player_field.bonus_cards) :
           player_field.bonus_cards[i] = player_field.bonus_cards[j] => i = j

\* the second game of a batch, two rounds in: two main cards and a bonus card on
\* the field, one card left in each deck
C21_Witness ==
    /\ sim # NoLocals
    /\ Len(sim.results) = 1
    /\ pc = "play_loop"
    /\ rounds_done = 2
    /\ Len(player_field.main_cards) = 2
    /\ Len(main_deck) = 1
    /\ Len(player_field.bonus_cards) = 1
    /\ Len(bonus_deck) = 1

\* the catalogs hold enough cards for a game of n_rounds rounds
DecksSuffice ==
    /\ Len(catalog.main_cards) >= n_rounds
    /\ use_bonus_cards => Len(catalog.bonus_cards) >= n_rounds - 1

\* C22: with the baseline strategy and decks of at least n_rounds main cards and
\* (when bonus cards are in use) n_rounds - 1 bonus cards, no sequence of draws
\* makes a trial fail: no round finds a deck empty, the field that reaches the
\* final validation passes it, and the invalid-field ValueError never occurs.
C22_ValidationSucceeds ==
    DecksSuffice =>
        /\ error # InvalidField
        /\ error # EmptyDeck
        /\ (pc = "play_loop" /\ rounds_done < n_rounds) => main_deck # <<>>
        /\ (pc = "play_loop" /\ rounds_done = n_rounds) =>
               validate_final_field(player_field, use_bonus_cards)
        /\ pc \in Scoring => validate_final_field(player_field, use_bonus_cards)

\* a game of two rounds on a bonus catalog of one card: the second card ascended,
\* the only bonus card was drawn, and the field was validated and scored
C22_Witness ==
    /\ DecksSuffice
    /\ use_bonus_cards
    /\ n_rounds = 2
    /\ Len(catalog.bonus_cards) = 1
    /\ pc = "final_count_returned"
    /\ Len(player_field.bonus_cards) = 1
    /\ bonus_deck = <<>>
    /\ error = NoError

=============================================================================
